---- MODULE Spec2Model ----
(***************************************************************************)
(* Model of the propital-back-end REST service: user registration and      *)
(* login with a JSON Web Token cookie, and per-user notifications kept in  *)
(* two MongoDB collections (users, notifications).                          *)
(*                                                                         *)
(* Spec       models the single-file application src/src/index.js.         *)
(* SpecRouter models the notification router of the modular variant        *)
(*            (notificationRoutes + controllers/notificationController.js) *)
(*            working on the same two collections.                         *)
(* In both, a request is handled in one step.                              *)
(* SpecNoAdmin is Spec started from a database without an administrator.   *)
(*                                                                         *)
(* SpecInterleaved models index.js with the create and delete handlers     *)
(*            taking one step per store call, several requests in flight.  *)
(* SpecInterrupted models the router's create and delete controllers with  *)
(*            one step per store call, one request at a time, a handler    *)
(*            possibly stopping between two store calls.                   *)
(*                                                                         *)
(* Strings whose shape the code inspects (email, username, password) are   *)
(* sequences of one-character strings, so that length and format checks    *)
(* are computed.  Object ids are small naturals; a fresh id is never an id *)
(* that was used before.                                                   *)
(***************************************************************************)
EXTENDS Integers, Sequences, FiniteSets, TLC

VARIABLES users, notifs, nextNotifId, issued, now, nreq, last, pending

vars == <<users, notifs, nextNotifId, issued, now, nreq, last, pending>>

----------------------------------------------------------------------------
(* Bounds of the model *)

MaxUsers == 3
MaxNotifs == 2
MaxTokens == 2
MaxRecipients == 2
MaxIds == 2
MaxRequests == 4
MaxInFlight == 2

(* Program constants *)

ExpiresIn == 3600

\* The clock jumps by more than a token's lifetime, and stops once it is
\* past the expiry of a token issued at 0: a token is presented both before
\* and after its expiry.
TickSeconds == ExpiresIn + 1
ClockHorizon == ExpiresIn
MinUsername == 3
MinPassword == 6

\* bcryptjs keys Blowfish with the first 72 bytes of the password
BcryptMaxBytes == 72

JWT_SECRET == "JWT_SECRET"
AttackerKey == "attacker-key"

UserIds == 1..MaxUsers
NotifIds == 1..MaxNotifs

----------------------------------------------------------------------------
(* Sample request values *)

EmailAdmin == <<"r", "@", "x", ".", "c", "o">>
EmailBob == <<"b", "@", "x", ".", "c", "o">>
EmailAlice == <<"a", "@", "x", ".", "c", "o">>
EmailBad == <<"a", "x", ".", "c", "o">>
Secret1 == <<"s", "e", "c", "r", "e", "t", "1">>
Secret2 == <<"s", "e", "c", "r", "e", "t", "2">>
ShortPw == <<"a", "b", "c">>
NameAlice == <<"a", "l", "i", "c", "e">>
NameShort == <<"a", "l">>
NameRoot == <<"r", "o", "o", "t">>
NameBob == <<"b", "o", "b">>

\* two passwords longer than bcrypt's input, alike in its first 72 bytes
LongPwA == [i \in 1..BcryptMaxBytes |-> "p"] \o <<"a">>
LongPwB == [i \in 1..BcryptMaxBytes |-> "p"] \o <<"b">>

Passwords == {Secret1, Secret2, ShortPw, LongPwA, LongPwB}

Salts == {"saltA"}

\* request bodies tried on /register: a new valid user, an email already
\* taken, and one violation of each rule of the schema
RegisterBodies ==
    {[email |-> EmailAlice, username |-> NameAlice, password |-> LongPwA],
     [email |-> EmailBob, username |-> NameAlice, password |-> Secret1],
     [email |-> EmailBad, username |-> NameAlice, password |-> Secret1],
     [email |-> EmailAlice, username |-> NameShort, password |-> Secret1],
     [email |-> EmailAlice, username |-> NameAlice, password |-> ShortPw]}

\* request bodies tried on /login
LoginBodies ==
    {[email |-> EmailAdmin, password |-> Secret1],
     [email |-> EmailBob, password |-> Secret1],
     [email |-> EmailBob, password |-> Secret2],
     [email |-> EmailAlice, password |-> LongPwA],
     [email |-> EmailAlice, password |-> LongPwB],
     [email |-> EmailBad, password |-> Secret1],
     [email |-> EmailBob, password |-> ShortPw]}

Messages == {"", "hi"}
Ranges == {"this_week", "bogus"}

----------------------------------------------------------------------------
(* zod schemas and the validation middleware *)

Positions(s, c) == {i \in 1..Len(s) : s[i] = c}

\* z.string().email(): one "@", a non-empty local part, a dotted domain
\* whose last label has at least two characters.
IsEmail(s) ==
    /\ Cardinality(Positions(s, "@")) = 1
    /\ LET at == CHOOSE i \in Positions(s, "@") : TRUE
           dots == {i \in Positions(s, ".") : i > at}
       IN /\ at > 1
          /\ s[1] # "."
          /\ dots # {}
          /\ \A i \in dots : i > at + 1 /\ (i + 1) \notin dots
          /\ \E i \in dots : (\A j \in dots : j <= i) /\ Len(s) - i >= 2

registerSchema(body) ==
    /\ IsEmail(body.email)
    /\ Len(body.username) >= MinUsername
    /\ Len(body.password) >= MinPassword

loginSchema(body) ==
    /\ IsEmail(body.email)
    /\ Len(body.password) >= MinPassword

\* faulty variant: next() called whatever schema.parse found
validate_Skipped(schemaOk) == TRUE

\* validate(schema): TRUE when next() is called, FALSE when it answers 400.
validate(schemaOk) == schemaOk

----------------------------------------------------------------------------
(* bcrypt: a salted one-way hash, modelled as a tagged encoding of the     *)
(* salt and of the bytes of the password that bcrypt reads (the first 72); *)
(* it is never equal to the password itself.  A character is one byte.     *)

\* the part of the password that enters the hash
BcryptInput(password) ==
    SubSeq(password, 1,
           IF Len(password) < BcryptMaxBytes THEN Len(password)
           ELSE BcryptMaxBytes)

bcryptHash(password, salt) == <<"$2a$10$", salt>> \o BcryptInput(password)

bcryptCompare(password, hash) ==
    /\ Len(hash) >= 2
    /\ hash = bcryptHash(password, hash[2])

----------------------------------------------------------------------------
(* jsonwebtoken *)

NoToken ==
    [kind |-> "none", userId |-> 0, isAdmin |-> FALSE, iat |-> 0, exp |-> 0,
     key |-> "none"]

Malformed ==
    [kind |-> "malformed", userId |-> 0, isAdmin |-> FALSE, iat |-> 0,
     exp |-> 0, key |-> "none"]

NoUser == [userId |-> 0, isAdmin |-> FALSE]

\* jwt.sign(payload, secret, {expiresIn: "1h"}) at time t
jwtSign(payload, secret, t) ==
    [kind |-> "jwt", userId |-> payload.userId, isAdmin |-> payload.isAdmin,
     iat |-> t, exp |-> t + ExpiresIn, key |-> secret]

\* faulty variant: verification that never looks at exp (ignoreExpiration)
jwtVerify_IgnoreExpiration(token, secret, t) ==
    IF token.kind # "jwt" THEN "JsonWebTokenError"
    ELSE IF token.key # secret THEN "JsonWebTokenError"
    ELSE "ok"

\* jwt.verify(token, secret) at time t: the error name, or "ok"
jwtVerify(token, secret, t) ==
    IF token.kind # "jwt" THEN "JsonWebTokenError"
    ELSE IF token.key # secret THEN "JsonWebTokenError"
    ELSE IF t >= token.exp THEN "TokenExpiredError"
    ELSE "ok"

\* faulty variant: the middleware reads the user record, refuses a deleted
\* user and takes isAdmin from the record
authenticateToken_ReadsUser(token, t) ==
    IF token.kind = "none"
    THEN [next |-> FALSE, status |-> 401, user |-> NoUser]
    ELSE IF jwtVerify(token, JWT_SECRET, t) # "ok"
    THEN [next |-> FALSE, status |-> 403, user |-> NoUser]
    ELSE IF users[token.userId].isDeleted
    THEN [next |-> FALSE, status |-> 403, user |-> NoUser]
    ELSE [next |-> TRUE, status |-> 0,
          user |-> [userId |-> token.userId,
                    isAdmin |-> users[token.userId].isAdmin]]

\* the middleware: which status it answers with (0: none, next() is called)
\* and the identity it attaches to the request
authenticateToken(token, t) ==
    IF token.kind = "none"
    THEN [next |-> FALSE, status |-> 401, user |-> NoUser]
    ELSE IF jwtVerify(token, JWT_SECRET, t) # "ok"
    THEN [next |-> FALSE, status |-> 403, user |-> NoUser]
    ELSE [next |-> TRUE, status |-> 0,
          user |-> [userId |-> token.userId, isAdmin |-> token.isAdmin]]

\* faulty variant: the admin check left out
requireAdmin_Missing(user) == TRUE

\* if (!req.user.isAdmin) return 403
requireAdmin(user) == user.isAdmin

\* tokens a client can put in the cookie: none, garbage, any token the
\* server issued, or one signed with a key that is not the server's
ForgedTokens(t) ==
    {jwtSign([userId |-> 1, isAdmin |-> TRUE], AttackerKey, t)}

Cookies == {NoToken, Malformed} \cup issued \cup ForgedTokens(now)

\* what the middleware made of the cookie, for the record of the request
Verdict(token, t) ==
    IF token.kind = "none" THEN "none" ELSE jwtVerify(token, JWT_SECRET, t)

----------------------------------------------------------------------------
(* The two collections *)

NewUser(email, username, hash) ==
    [email |-> email, username |-> username, password |-> hash,
     isDeleted |-> FALSE, isAdmin |-> FALSE, notifications |-> <<>>]

NewNotification(message, recipients, t) ==
    [message |-> message, createdAt |-> t, isRead |-> FALSE,
     recipients |-> recipients]

Range(s) == {s[i] : i \in 1..Len(s)}

\* faulty variant: updateOne in place of updateMany, only the first recipient gets
\* the back-reference
PushNotification_UpdateOne(us, ids, nid) ==
    [u \in DOMAIN us |->
        IF Len(ids) > 0 /\ u = ids[1]
        THEN [us[u] EXCEPT !.notifications = Append(@, nid)]
        ELSE us[u]]

\* User.updateMany({_id: {$in: ids}}, {$push: {notifications: nid}})
PushNotification(us, ids, nid) ==
    [u \in DOMAIN us |->
        IF u \in Range(ids)
        THEN [us[u] EXCEPT !.notifications = Append(@, nid)]
        ELSE us[u]]

\* faulty variant: updateOne in place of updateMany, only the first user holding
\* the id loses it
PullNotification_UpdateOne(us, nid) ==
    LET holders == {u \in DOMAIN us : nid \in Range(us[u].notifications)}
    IN [u \in DOMAIN us |->
          IF u \in holders /\ \A v \in holders : u <= v
          THEN [us[u] EXCEPT !.notifications = SelectSeq(@, LAMBDA x : x # nid)]
          ELSE us[u]]

\* User.updateMany({notifications: nid}, {$pull: {notifications: nid}})
PullNotification(us, nid) ==
    [u \in DOMAIN us |->
        [us[u] EXCEPT !.notifications = SelectSeq(@, LAMBDA x : x # nid)]]

\* faulty variant: updateOne in place of updateMany, only the first matched
\* notification is marked
SetRead_UpdateOne(ns, matched) ==
    [n \in DOMAIN ns |->
        IF n \in matched /\ \A m \in matched : n <= m
        THEN [ns[n] EXCEPT !.isRead = TRUE]
        ELSE ns[n]]

\* faulty variant: the flag of the matched notifications flipped
SetRead_Toggle(ns, matched) ==
    [n \in DOMAIN ns |->
        IF n \in matched THEN [ns[n] EXCEPT !.isRead = ~@] ELSE ns[n]]

\* Notification.updateMany(filter, {isRead: true}) over the matched ids
SetRead(ns, matched) ==
    [n \in DOMAIN ns |->
        IF n \in matched THEN [ns[n] EXCEPT !.isRead = TRUE] ELSE ns[n]]

\* faulty variant: result.matchedCount answered in place of result.modifiedCount
ModifiedCount_Matched(ns, matched) == Cardinality(matched)

\* result.modifiedCount: matched documents whose isRead actually changed
ModifiedCount(ns, matched) ==
    Cardinality({n \in matched : ~ns[n].isRead})

\* the filter {recipients: userId}
AddressedTo(ns, userId) ==
    {n \in DOMAIN ns : userId \in Range(ns[n].recipients)}

\* faulty variant: the filter without the recipients condition
UnreadAddressedTo_AnyRecipient(ns, userId) ==
    {n \in DOMAIN ns : ~ns[n].isRead}

\* the filter {recipients: userId, isRead: false}
UnreadAddressedTo(ns, userId) ==
    {n \in AddressedTo(ns, userId) : ~ns[n].isRead}

\* ids of a set in ascending (insertion) order
RECURSIVE SortedSeq(_)
SortedSeq(S) ==
    IF S = {} THEN <<>>
    ELSE LET m == CHOOSE x \in S : \A y \in S : x <= y
         IN <<m>> \o SortedSeq(S \ {m})

\* .populate("notifications"): ids without a document are dropped
Populate(ns, ids) == SelectSeq(ids, LAMBDA x : x \in DOMAIN ns)

----------------------------------------------------------------------------
(* Requests and responses *)

NoBody == [none |-> TRUE]

\* ascending id lists of at most k ids drawn from S
IdLists(S, k) == {SortedSeq(T) : T \in {T \in SUBSET S : Cardinality(T) <= k}}

RecipientLists == IdLists(DOMAIN users, MaxRecipients)
NotificationIdLists == IdLists(NotifIds, MaxIds)
NotAnArray == [array |-> FALSE, items |-> <<>>]
NotificationIdsValues ==
    {[array |-> TRUE, items |-> l] : l \in NotificationIdLists} \cup {NotAnArray}

\* what an async handler without try/catch leaves the client with when a
\* store call rejects: an error answer (500) or no answer at all (0)
UnhandledOutcomes == {0, 500}

\* The record of the last request: the route, the status answered, the
\* cookie sent and the middleware's verdict on it ("skipped" on a route
\* without the middleware), whether the route's handler ran, the identity
\* in req.user, the inputs the handler read, what it answered, and whether
\* the request changed the users or the notifications collection.  The
\* handler ran to its end in this step: no handler is left suspended.
Respond(op, status, cookie, verdict, ran, user, body, result) ==
    /\ nreq < MaxRequests
    /\ nreq' = nreq + 1
    /\ last' = [op |-> op, status |-> status, cookie |-> cookie,
                verify |-> verdict, ran |-> ran, user |-> user,
                body |-> body, result |-> result,
                mutated |-> (users' # users \/ notifs' # notifs)]
    /\ UNCHANGED pending

\* a route behind authenticateToken whose middleware answered itself: no
\* route handler is involved, the request is recorded under the
\* middleware's name
Rejected(op, cookie, auth) ==
    Respond("authenticateToken", auth.status, cookie, Verdict(cookie, now),
            FALSE, NoUser, NoBody, NoBody)

\* a route behind authenticateToken whose handler ran
Handled(op, status, cookie, auth, body, result) ==
    Respond(op, status, cookie, "ok", TRUE, auth.user, body, result)

\* a route without authenticateToken
Open(op, status, body, result) ==
    Respond(op, status, NoToken, "skipped", TRUE, NoUser, body, result)

----------------------------------------------------------------------------
(* src/src/index.js *)

\* The database holds an administrator (user 1) and a plain user (user 2),
\* both with password "secret1"; no notifications; no token issued yet.
\* (No route creates an administrator out of nothing, so one is in the
\* store from the start.)
Init ==
    /\ users = (1 :> [NewUser(EmailAdmin, NameRoot, bcryptHash(Secret1, "saltA"))
                        EXCEPT !.isAdmin = TRUE])
               @@ (2 :> NewUser(EmailBob, NameBob, bcryptHash(Secret1, "saltA")))
    /\ notifs = << >>
    /\ nextNotifId = 1
    /\ issued = {}
    /\ now = 0
    /\ nreq = 0
    /\ last = [op |-> "start", status |-> 0, cookie |-> NoToken,
               verify |-> "skipped", ran |-> FALSE, user |-> NoUser,
               body |-> NoBody, result |-> NoBody, mutated |-> FALSE]
    /\ pending = {}

\* the clock advances
Tick ==
    /\ now <= ClockHorizon
    /\ now' = now + TickSeconds
    /\ UNCHANGED <<users, notifs, nextNotifId, issued, nreq, last, pending>>

\* faulty variant: a partial unique index that covers the active users only
UniqueIndexRejects_ActiveOnly(us, email) ==
    \E u \in DOMAIN us : us[u].email = email /\ ~us[u].isDeleted

\* email: {unique: true}: the index covers every document of the
\* collection, whatever its isDeleted; an insert with an email it already
\* holds is rejected by the store (E11000 duplicate key)
UniqueIndexRejects(us, email) ==
    \E u \in DOMAIN us : us[u].email = email

\* app.post("/register", validate(registerSchema), ...); the new user's id
\* is the next unused one (users are never removed from the collection)
PostRegister(body, salt) ==
    LET op == "POST /register"
        id == Cardinality(DOMAIN users) + 1
    IN /\ UNCHANGED <<notifs, nextNotifId, issued, now>>
       /\ IF ~validate(registerSchema(body))
          THEN /\ UNCHANGED users
               /\ Open(op, 400, body, NoBody)
          ELSE IF UniqueIndexRejects(users, body.email)
          THEN \* the unique index rejects the save; the catch answers 500
               \* with the store's message
               /\ UNCHANGED users
               /\ Open(op, 500, body, [error |-> "E11000 duplicate key"])
          ELSE /\ id <= MaxUsers
               /\ users' = users @@
                     (id :> NewUser(body.email, body.username,
                                    bcryptHash(body.password, salt)))
               /\ Open(op, 201, body, NoBody)

\* faulty variant: the lookup without the isDeleted filter
FindActiveByEmail_IgnoreDeleted(us, email) ==
    {u \in DOMAIN us : us[u].email = email}

\* User.findOne({email, isDeleted: false})
FindActiveByEmail(us, email) ==
    {u \in DOMAIN us : us[u].email = email /\ ~us[u].isDeleted}

\* faulty variant: the isAdmin claim not taken from the user document
TokenPayload_NoAdminFlag(us, u) == [userId |-> u, isAdmin |-> FALSE]

\* the payload signed at login: {userId: user._id, isAdmin: user.isAdmin}
TokenPayload(us, u) == [userId |-> u, isAdmin |-> us[u].isAdmin]

\* app.post("/login", validate(loginSchema), ...)
PostLogin(body) ==
    LET op == "POST /login"
        found == FindActiveByEmail(users, body.email)
    IN /\ UNCHANGED <<users, notifs, nextNotifId, now>>
       /\ IF ~validate(loginSchema(body))
          THEN /\ UNCHANGED issued
               /\ Open(op, 400, body, NoBody)
          ELSE IF \/ found = {}
                  \/ \E u \in found :
                        ~bcryptCompare(body.password, users[u].password)
          THEN /\ UNCHANGED issued
               /\ Open(op, 401, body, NoBody)
          ELSE \E u \in found :
                 LET token == jwtSign(TokenPayload(users, u), JWT_SECRET, now)
                 IN /\ Cardinality(issued \cup {token}) <= MaxTokens
                    /\ issued' = issued \cup {token}
                    /\ Open(op, 200, body,
                            [token |-> token, id |-> u,
                             isAdmin |-> users[u].isAdmin])

\* app.post("/logout", ...)
PostLogout ==
    /\ UNCHANGED <<users, notifs, nextNotifId, issued, now>>
    /\ Open("POST /logout", 200, NoBody, [token |-> NoToken])

\* app.post("/notifications", authenticateToken, ...)
PostNotifications(cookie, message, recipientIds) ==
    LET auth == authenticateToken(cookie, now)
        op == "POST /notifications"
        body == [message |-> message, recipientIds |-> recipientIds]
        nid == nextNotifId
    IN /\ UNCHANGED <<issued, now>>
       /\ IF ~auth.next
          THEN /\ UNCHANGED <<users, notifs, nextNotifId>>
               /\ Rejected(op, cookie, auth)
          ELSE IF ~requireAdmin(auth.user)
          THEN /\ UNCHANGED <<users, notifs, nextNotifId>>
               /\ Handled(op, 403, cookie, auth, NoBody, NoBody)
          ELSE IF message = ""
          THEN \* message is required: save() rejects, nothing catches it
               /\ UNCHANGED <<users, notifs, nextNotifId>>
               /\ \E st \in UnhandledOutcomes :
                    Handled(op, st, cookie, auth, body, NoBody)
          ELSE /\ nid <= MaxNotifs
               /\ notifs' = notifs @@
                     (nid :> NewNotification(message, recipientIds, now))
               /\ nextNotifId' = nid + 1
               /\ users' = PushNotification(users, recipientIds, nid)
               /\ Handled(op, 201, cookie, auth, body, [id |-> nid])

\* The reference instant 0 of the clock is taken to be a Sunday, the first
\* of a month, 00:00 local time; months are taken as 30 days.
DaySeconds == 86400
WeekDays == 7
MonthDays == 30

StartDate(range, t) ==
    CASE range = "today" -> t - (t % DaySeconds)
      [] range = "this_week" -> t - (t % (WeekDays * DaySeconds))
      [] range = "last_month" ->
            t - (t % (MonthDays * DaySeconds)) - MonthDays * DaySeconds

\* app.get("/notifications/filter", authenticateToken, ...)
GetNotificationsFilter(cookie, range) ==
    LET auth == authenticateToken(cookie, now)
        op == "GET /notifications/filter"
        body == [range |-> range]
    IN /\ UNCHANGED <<users, notifs, nextNotifId, issued, now>>
       /\ IF ~auth.next
          THEN Rejected(op, cookie, auth)
          ELSE IF range \notin {"today", "this_week", "last_month"}
          THEN Handled(op, 400, cookie, auth, body, NoBody)
          ELSE LET found == {n \in AddressedTo(notifs, auth.user.userId) :
                               /\ notifs[n].createdAt >= StartDate(range, now)
                               /\ notifs[n].createdAt <= now}
               IN Handled(op, 200, cookie, auth, body,
                          [notifications |-> SortedSeq(found)])

\* User.findById(userId).populate("notifications"), then user.notifications
MyNotifications(us, ns, uid) == Populate(ns, us[uid].notifications)

\* app.get("/my-notifications", authenticateToken, ...)
GetMyNotifications(cookie) ==
    LET auth == authenticateToken(cookie, now)
        op == "GET /my-notifications"
        uid == auth.user.userId
    IN /\ UNCHANGED <<users, notifs, nextNotifId, issued, now>>
       /\ IF ~auth.next
          THEN Rejected(op, cookie, auth)
          ELSE IF uid \notin DOMAIN users
          THEN \* user is null: user.notifications throws, nothing catches it
               \E st \in UnhandledOutcomes :
                  Handled(op, st, cookie, auth, NoBody, NoBody)
          ELSE Handled(op, 200, cookie, auth, NoBody,
                       [notifications |-> MyNotifications(users, notifs, uid)])

\* app.put("/notifications/read", authenticateToken, ...)
PutNotificationsRead(cookie, notificationIds) ==
    LET auth == authenticateToken(cookie, now)
        op == "PUT /notifications/read"
        body == [notificationIds |-> notificationIds]
        matched == AddressedTo(notifs, auth.user.userId)
                      \cap Range(notificationIds.items)
    IN /\ UNCHANGED <<users, nextNotifId, issued, now>>
       /\ IF ~auth.next
          THEN /\ UNCHANGED notifs
               /\ Rejected(op, cookie, auth)
          ELSE IF ~notificationIds.array \/ Len(notificationIds.items) = 0
          THEN /\ UNCHANGED notifs
               /\ Handled(op, 400, cookie, auth, body, NoBody)
          ELSE /\ notifs' = SetRead(notifs, matched)
               /\ Handled(op, 200, cookie, auth, body,
                          [modifiedCount |-> ModifiedCount(notifs, matched)])

\* app.put("/my-notifications/read-all", authenticateToken, ...)
PutMyNotificationsReadAll(cookie) ==
    LET auth == authenticateToken(cookie, now)
        op == "PUT /my-notifications/read-all"
        matched == UnreadAddressedTo(notifs, auth.user.userId)
    IN /\ UNCHANGED <<users, nextNotifId, issued, now>>
       /\ IF ~auth.next
          THEN /\ UNCHANGED notifs
               /\ Rejected(op, cookie, auth)
          ELSE /\ notifs' = SetRead(notifs, matched)
               /\ Handled(op, 200, cookie, auth, NoBody, NoBody)

\* notification.deleteOne()
DeleteOne(ns, id) == [n \in DOMAIN ns \ {id} |-> ns[n]]

\* app.delete("/notifications/:id", authenticateToken, ...)
DeleteNotificationsId(cookie, id) ==
    LET auth == authenticateToken(cookie, now)
        op == "DELETE /notifications/:id"
        body == [id |-> id]
    IN /\ UNCHANGED <<nextNotifId, issued, now>>
       /\ IF ~auth.next
          THEN /\ UNCHANGED <<users, notifs>>
               /\ Rejected(op, cookie, auth)
          ELSE IF id \notin DOMAIN notifs
          THEN /\ UNCHANGED <<users, notifs>>
               /\ Handled(op, 404, cookie, auth, body, NoBody)
          ELSE /\ users' = PullNotification(users, id)
               /\ notifs' = DeleteOne(notifs, id)
               /\ Handled(op, 200, cookie, auth, body, NoBody)

\* faulty variant: an update without the _id filter, every user made admin
SetAdmin_UpdateMany(us, id) ==
    [u \in DOMAIN us |-> [us[u] EXCEPT !.isAdmin = TRUE]]

\* User.findByIdAndUpdate(id, {isAdmin: true}): no document, no change
SetAdmin(us, id) ==
    [u \in DOMAIN us |->
        IF u = id THEN [us[u] EXCEPT !.isAdmin = TRUE] ELSE us[u]]

\* User.findByIdAndUpdate(id, {isDeleted: true}, {new: true})
SoftDelete(us, id) ==
    [u \in DOMAIN us |->
        IF u = id THEN [us[u] EXCEPT !.isDeleted = TRUE] ELSE us[u]]

\* app.put("/grant-admin/:id", authenticateToken, ...)
PutGrantAdminId(cookie, id) ==
    LET auth == authenticateToken(cookie, now)
        op == "PUT /grant-admin/:id"
        body == [id |-> id]
    IN /\ UNCHANGED <<notifs, nextNotifId, issued, now>>
       /\ IF ~auth.next
          THEN /\ UNCHANGED users
               /\ Rejected(op, cookie, auth)
          ELSE IF ~requireAdmin(auth.user)
          THEN /\ UNCHANGED users
               /\ Handled(op, 403, cookie, auth, NoBody, NoBody)
          ELSE /\ users' = SetAdmin(users, id)
               /\ Handled(op, 200, cookie, auth, body, NoBody)

\* faulty variant: the handler with the admin check of grant-admin in front
DeleteUsersId_AdminOnly(cookie, id) ==
    LET auth == authenticateToken(cookie, now)
        op == "DELETE /users/:id"
        body == [id |-> id]
    IN /\ UNCHANGED <<notifs, nextNotifId, issued, now>>
       /\ IF ~auth.next
          THEN /\ UNCHANGED users
               /\ Rejected(op, cookie, auth)
          ELSE IF ~requireAdmin(auth.user)
          THEN /\ UNCHANGED users
               /\ Handled(op, 403, cookie, auth, body, NoBody)
          ELSE IF id \notin DOMAIN users
          THEN /\ UNCHANGED users
               /\ Handled(op, 404, cookie, auth, body, NoBody)
          ELSE /\ users' = SoftDelete(users, id)
               /\ Handled(op, 200, cookie, auth, body,
                          [user |-> SoftDelete(users, id)[id]])

\* app.delete("/users/:id", authenticateToken, ...)
DeleteUsersId(cookie, id) ==
    LET auth == authenticateToken(cookie, now)
        op == "DELETE /users/:id"
        body == [id |-> id]
    IN /\ UNCHANGED <<notifs, nextNotifId, issued, now>>
       /\ IF ~auth.next
          THEN /\ UNCHANGED users
               /\ Rejected(op, cookie, auth)
          ELSE IF id \notin DOMAIN users
          THEN /\ UNCHANGED users
               /\ Handled(op, 404, cookie, auth, body, NoBody)
          ELSE /\ users' = SoftDelete(users, id)
               /\ Handled(op, 200, cookie, auth, body,
                          [user |-> SoftDelete(users, id)[id]])

\* app.get("/protected", authenticateToken, ...)
GetProtected(cookie) ==
    LET auth == authenticateToken(cookie, now)
        op == "GET /protected"
    IN /\ UNCHANGED <<users, notifs, nextNotifId, issued, now>>
       /\ IF ~auth.next
          THEN Rejected(op, cookie, auth)
          ELSE Handled(op, 200, cookie, auth, NoBody,
                       [userId |-> auth.user.userId])

Next ==
    \/ Tick
    \/ \E b \in RegisterBodies, s \in Salts : PostRegister(b, s)
    \/ \E b \in LoginBodies : PostLogin(b)
    \/ PostLogout
    \/ \E c \in Cookies, m \in Messages, r \in RecipientLists :
          PostNotifications(c, m, r)
    \/ \E c \in Cookies, r \in Ranges : GetNotificationsFilter(c, r)
    \/ \E c \in Cookies : GetMyNotifications(c)
    \/ \E c \in Cookies, l \in NotificationIdsValues : PutNotificationsRead(c, l)
    \/ \E c \in Cookies : PutMyNotificationsReadAll(c)
    \/ \E c \in Cookies, id \in NotifIds : DeleteNotificationsId(c, id)
    \/ \E c \in Cookies, id \in UserIds : PutGrantAdminId(c, id)
    \/ \E c \in Cookies, id \in UserIds : DeleteUsersId(c, id)
    \/ \E c \in Cookies : GetProtected(c)

Spec == Init /\ [][Next]_vars

\* The same application on a database in which no user is an administrator:
\* the two users of Init, both with isAdmin at the schema's default.
InitNoAdmin ==
    /\ users = (1 :> NewUser(EmailAdmin, NameRoot, bcryptHash(Secret1, "saltA")))
               @@ (2 :> NewUser(EmailBob, NameBob, bcryptHash(Secret1, "saltA")))
    /\ notifs = << >>
    /\ nextNotifId = 1
    /\ issued = {}
    /\ now = 0
    /\ nreq = 0
    /\ last = [op |-> "start", status |-> 0, cookie |-> NoToken,
               verify |-> "skipped", ran |-> FALSE, user |-> NoUser,
               body |-> NoBody, result |-> NoBody, mutated |-> FALSE]
    /\ pending = {}

SpecNoAdmin == InitNoAdmin /\ [][Next]_vars

----------------------------------------------------------------------------
(* The modular variant: notificationRoutes mounts the controllers of       *)
(* controllers/notificationController.js without any middleware.  Its      *)
(* Notification model calls the recipient list userIds; the record field   *)
(* recipients stands for it here.  The caller's id is read from the        *)
(* request (body or query string); 0 stands for a request that gives none. *)

RequestUserIds == DOMAIN users \cup {0}

\* createNotification
createNotification(message, userIds) ==
    LET op == "POST /notifications"
        body == [message |-> message, userIds |-> userIds]
        nid == nextNotifId
    IN /\ UNCHANGED <<issued, now>>
       /\ IF message = "" \/ ~userIds.array \/ Len(userIds.items) = 0
          THEN /\ UNCHANGED <<users, notifs, nextNotifId>>
               /\ Open(op, 400, body, NoBody)
          ELSE /\ nid <= MaxNotifs
               /\ notifs' = notifs @@
                     (nid :> NewNotification(message, userIds.items, now))
               /\ nextNotifId' = nid + 1
               /\ users' = PushNotification(users, userIds.items, nid)
               /\ Open(op, 201, body, [id |-> nid])

\* getUserNotifications
getUserNotifications(userId) ==
    LET op == "GET /my-notifications"
        body == [userId |-> userId]
    IN /\ UNCHANGED <<users, notifs, nextNotifId, issued, now>>
       /\ IF userId = 0
          THEN Open(op, 400, body, NoBody)
          ELSE Open(op, 200, body,
                    [notifications |-> SortedSeq(AddressedTo(notifs, userId))])

\* markNotificationsAsRead
markNotificationsAsRead(notificationIds, userId) ==
    LET op == "PUT /notifications/read"
        body == [notificationIds |-> notificationIds, userId |-> userId]
        matched == AddressedTo(notifs, userId) \cap Range(notificationIds.items)
    IN /\ UNCHANGED <<users, nextNotifId, issued, now>>
       /\ IF \/ ~notificationIds.array
             \/ Len(notificationIds.items) = 0
             \/ userId = 0
          THEN /\ UNCHANGED notifs
               /\ Open(op, 400, body, NoBody)
          ELSE /\ notifs' = SetRead(notifs, matched)
               /\ Open(op, 200, body, NoBody)

\* markAllNotificationsAsRead
markAllNotificationsAsRead(userId) ==
    LET op == "PUT /my-notifications/read-all"
        body == [userId |-> userId]
        matched == UnreadAddressedTo(notifs, userId)
    IN /\ UNCHANGED <<users, nextNotifId, issued, now>>
       /\ IF userId = 0
          THEN /\ UNCHANGED notifs
               /\ Open(op, 400, body, NoBody)
          ELSE /\ notifs' = SetRead(notifs, matched)
               /\ Open(op, 200, body, NoBody)

\* deleteNotification
deleteNotification(id, userId) ==
    LET op == "DELETE /notifications/:id"
        body == [id |-> id, userId |-> userId]
    IN /\ UNCHANGED <<nextNotifId, issued, now>>
       /\ IF userId = 0
          THEN /\ UNCHANGED <<users, notifs>>
               /\ Open(op, 400, body, NoBody)
          ELSE IF id \notin DOMAIN notifs
          THEN /\ UNCHANGED <<users, notifs>>
               /\ Open(op, 404, body, NoBody)
          ELSE \* notification.remove() is no method of a document in
               \* Mongoose 7 and later: there it throws and the catch answers 500
               \/ /\ notifs' = DeleteOne(notifs, id)
                  /\ users' = PullNotification(users, id)
                  /\ Open(op, 200, body, NoBody)
               \/ /\ UNCHANGED <<users, notifs>>
                  /\ Open(op, 500, body, NoBody)

UserIdsValues ==
    {[array |-> TRUE, items |-> l] : l \in RecipientLists} \cup {NotAnArray}

NextRouter ==
    \/ Tick
    \/ \E m \in Messages, r \in UserIdsValues : createNotification(m, r)
    \/ \E u \in RequestUserIds : getUserNotifications(u)
    \/ \E l \in NotificationIdsValues, u \in RequestUserIds :
          markNotificationsAsRead(l, u)
    \/ \E u \in RequestUserIds : markAllNotificationsAsRead(u)
    \/ \E id \in NotifIds, u \in RequestUserIds : deleteNotification(id, u)

SpecRouter == Init /\ [][NextRouter]_vars

----------------------------------------------------------------------------
(* Handlers one store call at a time.  A handler suspended at an await is  *)
(* a record of pending: the route, the cookie and the identity taken from  *)
(* it, the inputs read, the notification's id, the store call to make next *)
(* (pc), and the number of the request.  nreq counts the requests that     *)
(* arrived; last is the answer of the handler that last ran to its end.    *)

InFlight(op, cookie, user, body, id, pc) ==
    [op |-> op, cookie |-> cookie, user |-> user, body |-> body, id |-> id,
     pc |-> pc, req |-> nreq + 1]

\* a request arrives and its handler is suspended at a store call
Suspend(p) ==
    /\ nreq < MaxRequests
    /\ nreq' = nreq + 1
    /\ pending' = pending \cup {p}
    /\ UNCHANGED last

\* a suspended handler makes a store call and is suspended at the next
Resume(p, pc) ==
    /\ pending' = (pending \ {p}) \cup {[p EXCEPT !.pc = pc]}
    /\ UNCHANGED <<nreq, last>>

\* a suspended handler makes its last store call, or fails, and answers
Answer(p, status, verdict, result) ==
    /\ pending' = pending \ {p}
    /\ UNCHANGED nreq
    /\ last' = [op |-> p.op, status |-> status, cookie |-> p.cookie,
                verify |-> verdict, ran |-> TRUE, user |-> p.user,
                body |-> p.body, result |-> result,
                mutated |-> (users' # users \/ notifs' # notifs)]

(* src/src/index.js *)

\* app.post("/notifications", ...) up to and including notification.save()
PostNotificationsSave(cookie, message, recipientIds) ==
    LET auth == authenticateToken(cookie, now)
        op == "POST /notifications"
        body == [message |-> message, recipientIds |-> recipientIds]
        nid == nextNotifId
    IN /\ UNCHANGED <<users, issued, now>>
       /\ IF ~auth.next
          THEN /\ UNCHANGED <<notifs, nextNotifId>>
               /\ Rejected(op, cookie, auth)
          ELSE IF ~requireAdmin(auth.user)
          THEN /\ UNCHANGED <<notifs, nextNotifId>>
               /\ Handled(op, 403, cookie, auth, NoBody, NoBody)
          ELSE IF message = ""
          THEN /\ UNCHANGED <<notifs, nextNotifId>>
               /\ \E st \in UnhandledOutcomes :
                    Handled(op, st, cookie, auth, body, NoBody)
          ELSE /\ nid <= MaxNotifs
               /\ Cardinality(pending) < MaxInFlight
               /\ notifs' = notifs @@
                     (nid :> NewNotification(message, recipientIds, now))
               /\ nextNotifId' = nid + 1
               /\ Suspend(InFlight(op, cookie, auth.user, body, nid,
                                   "updateMany"))

\* ... then User.updateMany($push) and the 201
PostNotificationsPush(p) ==
    /\ p.op = "POST /notifications"
    /\ p.pc = "updateMany"
    /\ users' = PushNotification(users, p.body.recipientIds, p.id)
    /\ UNCHANGED <<notifs, nextNotifId, issued, now>>
    /\ Answer(p, 201, "ok", [id |-> p.id])

\* app.delete("/notifications/:id", ...) up to and including
\* Notification.findById(id)
DeleteNotificationsIdFind(cookie, id) ==
    LET auth == authenticateToken(cookie, now)
        op == "DELETE /notifications/:id"
        body == [id |-> id]
    IN /\ UNCHANGED <<users, notifs, nextNotifId, issued, now>>
       /\ IF ~auth.next
          THEN Rejected(op, cookie, auth)
          ELSE IF id \notin DOMAIN notifs
          THEN Handled(op, 404, cookie, auth, body, NoBody)
          ELSE /\ Cardinality(pending) < MaxInFlight
               /\ Suspend(InFlight(op, cookie, auth.user, body, id,
                                   "updateMany"))

\* ... then User.updateMany($pull)
DeleteNotificationsIdPull(p) ==
    /\ p.op = "DELETE /notifications/:id"
    /\ p.pc = "updateMany"
    /\ users' = PullNotification(users, p.id)
    /\ UNCHANGED <<notifs, nextNotifId, issued, now>>
    /\ Resume(p, "deleteOne")

\* ... then notification.deleteOne() (no error when the document is
\* already gone) and the 200
DeleteNotificationsIdDeleteOne(p) ==
    /\ p.op = "DELETE /notifications/:id"
    /\ p.pc = "deleteOne"
    /\ notifs' = DeleteOne(notifs, p.id)
    /\ UNCHANGED <<users, nextNotifId, issued, now>>
    /\ Answer(p, 200, "ok", NoBody)

NextInterleaved ==
    \/ \E b \in LoginBodies : PostLogin(b)
    \/ \E c \in Cookies, m \in Messages, r \in RecipientLists :
          PostNotificationsSave(c, m, r)
    \/ \E p \in pending : PostNotificationsPush(p)
    \/ \E c \in Cookies, id \in NotifIds : DeleteNotificationsIdFind(c, id)
    \/ \E p \in pending : DeleteNotificationsIdPull(p)
    \/ \E p \in pending : DeleteNotificationsIdDeleteOne(p)

SpecInterleaved == Init /\ [][NextInterleaved]_vars

(* controllers/notificationController.js, one request at a time *)

\* createNotification up to and including newNotification.save()
createNotificationSave(message, userIds) ==
    LET op == "POST /notifications"
        body == [message |-> message, userIds |-> userIds]
        nid == nextNotifId
    IN /\ pending = {}
       /\ UNCHANGED <<users, issued, now>>
       /\ IF message = "" \/ ~userIds.array \/ Len(userIds.items) = 0
          THEN /\ UNCHANGED <<notifs, nextNotifId>>
               /\ Open(op, 400, body, NoBody)
          ELSE /\ nid <= MaxNotifs
               /\ notifs' = notifs @@
                     (nid :> NewNotification(message, userIds.items, now))
               /\ nextNotifId' = nid + 1
               /\ Suspend(InFlight(op, NoToken, NoUser, body, nid,
                                   "updateMany"))

\* ... then User.updateMany($push) and the 201
createNotificationPush(p) ==
    /\ p.op = "POST /notifications"
    /\ p.pc = "updateMany"
    /\ users' = PushNotification(users, p.body.userIds.items, p.id)
    /\ UNCHANGED <<notifs, nextNotifId, issued, now>>
    /\ Answer(p, 201, "skipped", [id |-> p.id])

\* deleteNotification up to and including Notification.findById(id)
deleteNotificationFind(id, userId) ==
    LET op == "DELETE /notifications/:id"
        body == [id |-> id, userId |-> userId]
    IN /\ pending = {}
       /\ UNCHANGED <<users, notifs, nextNotifId, issued, now>>
       /\ IF userId = 0
          THEN Open(op, 400, body, NoBody)
          ELSE IF id \notin DOMAIN notifs
          THEN Open(op, 404, body, NoBody)
          ELSE Suspend(InFlight(op, NoToken, NoUser, body, id, "remove"))

\* ... then notification.remove(): the document is deleted, or (Mongoose 7
\* and later, where a document has no such method) the call throws and the
\* catch answers 500
deleteNotificationRemove(p) ==
    /\ p.op = "DELETE /notifications/:id"
    /\ p.pc = "remove"
    /\ UNCHANGED <<users, nextNotifId, issued, now>>
    /\ \/ /\ notifs' = DeleteOne(notifs, p.id)
          /\ Resume(p, "updateMany")
       \/ /\ UNCHANGED notifs
          /\ Answer(p, 500, "skipped", NoBody)

\* ... then User.updateMany($pull) and the 200
deleteNotificationPull(p) ==
    /\ p.op = "DELETE /notifications/:id"
    /\ p.pc = "updateMany"
    /\ users' = PullNotification(users, p.id)
    /\ UNCHANGED <<notifs, nextNotifId, issued, now>>
    /\ Answer(p, 200, "skipped", NoBody)

\* A suspended handler does not get to its next store call: the store call
\* rejects and the catch answers 500, or the process stops and nothing is
\* answered.
Interrupted(p) ==
    /\ UNCHANGED <<users, notifs, nextNotifId, issued, now>>
    /\ \E st \in UnhandledOutcomes : Answer(p, st, "skipped", NoBody)

NextInterrupted ==
    \/ \E m \in Messages, r \in UserIdsValues : createNotificationSave(m, r)
    \/ \E p \in pending : createNotificationPush(p)
    \/ \E id \in NotifIds, u \in RequestUserIds : deleteNotificationFind(id, u)
    \/ \E p \in pending : deleteNotificationRemove(p)
    \/ \E p \in pending : deleteNotificationPull(p)
    \/ \E p \in pending : Interrupted(p)

SpecInterrupted == Init /\ [][NextInterrupted]_vars

----------------------------------------------------------------------------
(* Properties *)

AdminOps == {"POST /notifications", "PUT /grant-admin/:id"}
ExemptOps == {"start", "POST /register", "POST /login", "POST /logout"}
RejectVerdicts == {"none", "JsonWebTokenError", "TokenExpiredError"}

Recipients(n) == Range(notifs[n].recipients)
BackRefs(u) == Range(users[u].notifications)

\* C1: a verified token whose isAdmin claim is false never passes the admin
\* check: create-notification and grant-admin answer 403 and change neither
\* collection; and an admin-gated route never runs without the
\* authentication middleware having verified a token first.
C1_NonAdminRefused ==
    last.op \in AdminOps =>
        /\ last.verify = "ok"
        /\ ~last.cookie.isAdmin => (last.status = 403 /\ ~last.mutated)
        /\ last.status \in {200, 201} => (last.cookie.isAdmin /\ last.user.isAdmin)

C1_Witness ==
    /\ last.op = "POST /notifications"
    /\ last.cookie \in issued
    /\ ~last.cookie.isAdmin
    /\ last.status = 403

\* C2 (as claimed): create with an empty message or an empty recipient list
\* answers 400 and persists nothing.
C2_EmptyCreateRefused ==
    (/\ last.op = "POST /notifications"
     /\ last.user.isAdmin
     /\ (last.body.message = "" \/ Len(last.body.recipientIds) = 0))
        => (last.status = 400 /\ ~last.mutated)

\* C3: right after a successful create for existing users, the new
\* notification is in the list of every recipient and in the list of no
\* other user.
C3_ListedForRecipientsOnly ==
    (last.op = "POST /notifications" /\ last.status = 201) =>
        \A u \in DOMAIN users :
            (u \in Range(last.body.recipientIds))
                <=> (last.result.id \in Range(MyNotifications(users, notifs, u)))

C3_Witness ==
    /\ last.op = "POST /notifications"
    /\ last.status = 201
    /\ Len(last.body.recipientIds) = 2
    /\ \E u \in DOMAIN users : u \notin Range(last.body.recipientIds)

\* C4 (as claimed): deleting an existing notification is refused with 403,
\* with nothing changed, unless the caller is a recipient or an admin.
C4_DeleteNeedsRecipientOrAdmin ==
    [][(/\ nreq' # nreq
        /\ last'.op = "DELETE /notifications/:id"
        /\ last'.body.id \in DOMAIN notifs
        /\ last'.user.userId \notin Recipients(last'.body.id)
        /\ ~last'.user.isAdmin
        /\ ~users[last'.user.userId].isAdmin)
          => (last'.status = 403 /\ ~last'.mutated)]_vars

\* ids that were given to a notification which no longer exists
Deleted == {n \in NotifIds : n < nextNotifId /\ n \notin DOMAIN notifs}

\* C5: a successful delete removes the notification and its id from every
\* user's list; the notification never comes back, and any later delete of
\* it answers 404 and changes nothing.
C5_DeleteThenNotFound ==
    /\ [](last.op = "DELETE /notifications/:id" /\ last.status = 200
            => /\ last.body.id \in Deleted
               /\ \A u \in DOMAIN users : last.body.id \notin BackRefs(u))
    /\ [][\A n \in Deleted :
            /\ n \notin DOMAIN notifs'
            /\ \A u \in DOMAIN users' :
                  n \notin Range(users'[u].notifications)
            /\ (/\ nreq' # nreq
                /\ last'.op = "DELETE /notifications/:id"
                /\ last'.body.id = n)
                  => (last'.status = 404 /\ ~last'.mutated)]_vars

C5_Witness ==
    /\ last.op = "DELETE /notifications/:id"
    /\ last.status = 404
    /\ last.body.id \in Deleted

\* C6: after a mark-read by a recipient the shared flag is set, every
\* recipient's list shows the notification as read, and a repeated
\* mark-read answers 200 again with the flag still set.
C6_SharedReadFlag ==
    (last.op = "PUT /notifications/read" /\ last.body.notificationIds.array
        /\ Len(last.body.notificationIds.items) > 0) =>
        /\ last.status = 200
        /\ \A n \in Range(last.body.notificationIds.items) \cap DOMAIN notifs :
              last.user.userId \in Recipients(n) =>
                 /\ notifs[n].isRead
                 /\ \A b \in Recipients(n) \cap DOMAIN users :
                       \E i \in 1..Len(MyNotifications(users, notifs, b)) :
                          /\ MyNotifications(users, notifs, b)[i] = n
                          /\ notifs[MyNotifications(users, notifs, b)[i]].isRead

C6_Witness ==
    /\ last.op = "PUT /notifications/read"
    /\ last.status = 200
    /\ last.result.modifiedCount = 0
    /\ \E n \in Range(last.body.notificationIds.items) \cap DOMAIN notifs :
          /\ last.user.userId \in Recipients(n)
          /\ Cardinality(Recipients(n)) = 2
          /\ notifs[n].isRead

StoreAccessed == last.ran /\ last.status \notin {400, 403}

\* C8 (as claimed): apart from register, login and logout, no handler runs
\* unless the middleware verified a token the server issued, and the
\* identity the handler acts for is the one in that token.
C8_EveryRouteGuarded ==
    (last.op \notin ExemptOps /\ StoreAccessed) =>
        /\ last.verify = "ok"
        /\ last.cookie \in issued
        /\ last.user = [userId |-> last.cookie.userId,
                        isAdmin |-> last.cookie.isAdmin]

\* C9: every token issued at login is signed with the server's secret and
\* expires one hour after it was issued; the middleware rejects it once the
\* clock is past the expiry and accepts it before.
C9_ExpiryEnforced ==
    \A t \in issued :
        /\ t.key = JWT_SECRET
        /\ t.exp = t.iat + ExpiresIn
        /\ now > t.exp => ~authenticateToken(t, now).next
        /\ now < t.exp => authenticateToken(t, now).next
        /\ (last.cookie = t /\ last.verify = "TokenExpiredError") => ~last.ran

C9_Witness ==
    /\ last.cookie \in issued
    /\ now > last.cookie.exp
    /\ last.verify = "TokenExpiredError"
    /\ ~last.ran
    /\ \E t \in issued : now < t.exp

\* C10 (as claimed): without a token, with a malformed or wrongly signed
\* token, and with an expired token the middleware answers 401 and the
\* handler does not run.
C10_Unauthorized401 ==
    last.verify \in RejectVerdicts => (last.status = 401 /\ ~last.ran)

\* C11: a soft-deleted user is never found by the lookup of active users
\* by email, so a login with its email is refused (401 when the password is
\* the right one) and carries no token; the record stays in the collection
\* with isDeleted set, with the same email, in every later state.
C11_SoftDeletedNotFound ==
    /\ [](/\ \A u \in DOMAIN users :
               users[u].isDeleted => FindActiveByEmail(users, users[u].email) = {}
          /\ (last.op = "DELETE /users/:id" /\ last.status = 200) =>
                /\ last.body.id \in DOMAIN users
                /\ users[last.body.id].isDeleted
          /\ (/\ last.op = "POST /login"
              /\ \E u \in DOMAIN users :
                    users[u].email = last.body.email /\ users[u].isDeleted) =>
                /\ last.status \in {400, 401}
                /\ last.result = NoBody
                /\ loginSchema(last.body) => last.status = 401)
    /\ [][\A u \in DOMAIN users :
            users[u].isDeleted =>
               /\ u \in DOMAIN users'
               /\ users'[u].isDeleted
               /\ users'[u].email = users[u].email]_vars

C11_Witness ==
    /\ last.op = "POST /login"
    /\ last.status = 401
    /\ \E u \in DOMAIN users :
          /\ users[u].email = last.body.email
          /\ users[u].isDeleted
          /\ bcryptCompare(last.body.password, users[u].password)

\* C12: a register whose email is already held by a user record, deleted
\* or not, fails with the store's duplicate-key error and creates no user;
\* no two user records ever share an email.
C12_EmailUnique ==
    /\ \A u, v \in DOMAIN users : users[u].email = users[v].email => u = v
    /\ (last.op = "POST /register" /\ last.status = 201) =>
          /\ last.mutated
          /\ Cardinality({u \in DOMAIN users :
                             users[u].email = last.body.email}) = 1
    /\ (/\ last.op = "POST /register"
        /\ last.status # 400
        /\ ~last.mutated) =>
          /\ last.status = 500
          /\ last.result = [error |-> "E11000 duplicate key"]
          /\ \E u \in DOMAIN users : users[u].email = last.body.email

C12_Witness ==
    /\ last.op = "POST /register"
    /\ last.status = 500
    /\ ~last.mutated
    /\ \E u \in DOMAIN users :
          users[u].email = last.body.email /\ users[u].isDeleted

\* C13 (as claimed): the credential stored for a newly registered user is
\* not the password but verifies it, and verifies no other password.
C13_CredentialVerifiesOnlyPassword ==
    (last.op = "POST /register" /\ last.status = 201) =>
        \A u \in DOMAIN users :
            users[u].email = last.body.email =>
               /\ users[u].password \notin Passwords
               /\ bcryptCompare(last.body.password, users[u].password)
               /\ \A p \in Passwords \ {last.body.password} :
                     ~bcryptCompare(p, users[u].password)

\* C14: a login with a well-formed body answers 401 and issues no token
\* when no active user has the email or the password does not verify
\* against that user's stored hash; otherwise it answers 200 and issues one
\* token, signed now, whose claims are the id and the isAdmin flag that the
\* user record holds at that moment.  A register with a well-formed body
\* and an email no record holds answers 201 and adds one user, with the
\* body's email and username, isAdmin false and isDeleted false, leaving
\* the other users as they were; no other register answers 201.
C14_LoginRegisterOutcome ==
    [][nreq' # nreq =>
        /\ (last'.op = "POST /login" /\ loginSchema(last'.body)) =>
              LET ok == {u \in DOMAIN users :
                           /\ users[u].email = last'.body.email
                           /\ ~users[u].isDeleted
                           /\ bcryptCompare(last'.body.password,
                                            users[u].password)}
              IN IF ok = {}
                 THEN /\ last'.status = 401
                      /\ last'.result = NoBody
                      /\ issued' = issued
                 ELSE /\ last'.status = 200
                      /\ \E u \in ok :
                            /\ last'.result.id = u
                            /\ last'.result.isAdmin = users[u].isAdmin
                            /\ last'.result.token =
                                  [kind |-> "jwt", userId |-> u,
                                   isAdmin |-> users[u].isAdmin, iat |-> now,
                                   exp |-> now + ExpiresIn, key |-> JWT_SECRET]
                      /\ issued' = issued \cup {last'.result.token}
        /\ last'.op = "POST /register" =>
              LET fresh == /\ registerSchema(last'.body)
                           /\ \A u \in DOMAIN users :
                                 users[u].email # last'.body.email
                  added == DOMAIN users' \ DOMAIN users
              IN /\ fresh <=> last'.status = 201
                 /\ \A u \in DOMAIN users : users'[u] = users[u]
                 /\ ~fresh => added = {}
                 /\ fresh =>
                       /\ Cardinality(added) = 1
                       /\ \A u \in added :
                             /\ users'[u].email = last'.body.email
                             /\ users'[u].username = last'.body.username
                             /\ ~users'[u].isAdmin
                             /\ ~users'[u].isDeleted
                             /\ users'[u].notifications = <<>>]_vars

C14_Witness ==
    /\ last.op = "POST /login"
    /\ last.status = 200
    /\ last.result.id # 1
    /\ last.result.token.isAdmin
    /\ last.result.token \in issued
    /\ \E u \in DOMAIN users : users[u].email = EmailAlice /\ ~users[u].isAdmin

\* C15: a register or login body that breaks a rule of its schema (email
\* not shaped as one, username under 3 characters, password under 6) is
\* answered 400 with both collections unchanged and no token; so is a
\* mark-read, by an authenticated caller, whose notificationIds is not an
\* array or is an empty one.
C15_ValidationBeforeMutation ==
    /\ (/\ last.op = "POST /register"
        /\ \/ ~IsEmail(last.body.email)
           \/ Len(last.body.username) < MinUsername
           \/ Len(last.body.password) < MinPassword) =>
          (last.status = 400 /\ ~last.mutated)
    /\ (/\ last.op = "POST /login"
        /\ \/ ~IsEmail(last.body.email)
           \/ Len(last.body.password) < MinPassword) =>
          (last.status = 400 /\ ~last.mutated /\ last.result = NoBody)
    /\ (/\ last.op = "PUT /notifications/read"
        /\ \/ ~last.body.notificationIds.array
           \/ Len(last.body.notificationIds.items) = 0) =>
          (last.status = 400 /\ ~last.mutated)
    /\ (last.op \in {"POST /register", "POST /login", "PUT /notifications/read"}
          /\ last.status = 400) => ~last.mutated

C15_Witness ==
    /\ last.op = "PUT /notifications/read"
    /\ last.status = 400
    /\ ~last.body.notificationIds.array
    /\ \E n \in DOMAIN notifs :
          last.user.userId \in Recipients(n) /\ ~notifs[n].isRead
    /\ \E u \in DOMAIN users : users[u].email = EmailAlice

\* C16: a grant-admin by a caller with the admin claim answers 200, sets
\* isAdmin on the user with the given id and changes nothing else; when no
\* user has the id it answers 200 all the same and changes nothing.  A
\* soft delete of an existing user answers 200, sets its isDeleted, changes
\* nothing else and returns the updated record; when no user has the id it
\* answers 404 and changes nothing.
C16_SetAdminSoftDelete ==
    [][nreq' # nreq =>
        /\ (last'.op = "PUT /grant-admin/:id" /\ last'.user.isAdmin) =>
              /\ last'.status = 200
              /\ notifs' = notifs
              /\ DOMAIN users' = DOMAIN users
              /\ \A u \in DOMAIN users :
                    users'[u] = IF u = last'.body.id
                                THEN [users[u] EXCEPT !.isAdmin = TRUE]
                                ELSE users[u]
        /\ last'.op = "DELETE /users/:id" =>
              /\ notifs' = notifs
              /\ DOMAIN users' = DOMAIN users
              /\ IF last'.body.id \in DOMAIN users
                 THEN /\ last'.status = 200
                      /\ \A u \in DOMAIN users :
                            users'[u] = IF u = last'.body.id
                                        THEN [users[u] EXCEPT !.isDeleted = TRUE]
                                        ELSE users[u]
                      /\ last'.result = [user |-> users'[last'.body.id]]
                 ELSE /\ last'.status = 404
                      /\ last'.result = NoBody
                      /\ users' = users]_vars

C16_Witness ==
    /\ last.op = "PUT /grant-admin/:id"
    /\ last.status = 200
    /\ last.body.id \notin DOMAIN users
    /\ ~last.mutated
    /\ \E u \in DOMAIN users : users[u].isDeleted
    /\ \E u \in DOMAIN users : ~users[u].isAdmin

\* C17: a mark-all-read by an authenticated caller answers 200; afterwards
\* every notification addressed to the caller is read, and nothing else has
\* changed: no other field, no notification not addressed to the caller,
\* no user; a caller with no notification changes nothing at all.
C17_MarkAllReadFrame ==
    [][(nreq' # nreq /\ last'.op = "PUT /my-notifications/read-all") =>
        /\ last'.status = 200
        /\ users' = users
        /\ DOMAIN notifs' = DOMAIN notifs
        /\ \A n \in DOMAIN notifs :
              notifs'[n] = IF last'.user.userId \in Recipients(n)
                           THEN [notifs[n] EXCEPT !.isRead = TRUE]
                           ELSE notifs[n]
        /\ (\A n \in DOMAIN notifs : last'.user.userId \notin Recipients(n))
              => (notifs' = notifs /\ ~last'.mutated)]_vars

C17_Witness ==
    /\ last.op = "PUT /my-notifications/read-all"
    /\ last.status = 200
    /\ last.mutated
    /\ \E n \in DOMAIN notifs :
          last.user.userId \in Recipients(n) /\ notifs[n].isRead
    /\ \E n \in DOMAIN notifs :
          last.user.userId \notin Recipients(n) /\ ~notifs[n].isRead

\* the notifications that exist and name user u among their recipients
Addressed(u) == {n \in DOMAIN notifs : u \in Recipients(n)}

\* C18 (as claimed): whenever no create or delete is in progress, whatever
\* the order in which the store calls of concurrent creates and deletes
\* were made, every user's list holds exactly the ids of the existing
\* notifications addressed to that user.
C18_BackRefsInSync ==
    pending = {} => \A u \in DOMAIN users : BackRefs(u) = Addressed(u)

\* C19 (as claimed): after a create or a delete stopped between its store
\* calls, a user's list may lack the id of an existing notification
\* addressed to the user, but it never holds the id of a notification that
\* does not exist or is not addressed to the user.
C19_NoDanglingBackRef ==
    pending = {} => \A u \in DOMAIN users : BackRefs(u) \subseteq Addressed(u)

\* C20: a token the server issued and that has not expired passes the
\* middleware whatever has become of its user: the handler runs for the
\* identity in the token, the admin check answers 403 exactly when the
\* token's isAdmin claim is false (also when the user record is an admin by
\* now), and list, mark-read, mark-all-read and delete are carried out
\* (also when the user record is deleted by now); a request that follows a
\* logout and sends such a token again passes as well.
C20_GuardUsesTokenClaimsOnly ==
    /\ []((last.cookie \in issued /\ now < last.cookie.exp) =>
            /\ last.verify = "ok"
            /\ last.ran
            /\ last.user = [userId |-> last.cookie.userId,
                            isAdmin |-> last.cookie.isAdmin]
            /\ last.op \in AdminOps =>
                  (last.status = 403 <=> ~last.cookie.isAdmin)
            /\ last.op \in {"GET /my-notifications",
                             "PUT /my-notifications/read-all"} =>
                  last.status = 200
            /\ last.op = "PUT /notifications/read" =>
                  last.status =
                     IF last.body.notificationIds.array
                          /\ Len(last.body.notificationIds.items) > 0
                     THEN 200 ELSE 400
            /\ last.op = "DELETE /notifications/:id" =>
                  last.status \in {200, 404})
    /\ [][(/\ last.op = "POST /logout"
           /\ nreq' # nreq
           /\ last'.cookie \in issued
           /\ now < last'.cookie.exp) =>
             (last'.verify = "ok" /\ last'.ran)]_vars

C20_Witness ==
    /\ last.op = "DELETE /notifications/:id"
    /\ last.status = 200
    /\ last.cookie \in issued
    /\ users[last.cookie.userId].isDeleted

\* C21: from a store in which no user is an administrator, no user ever
\* becomes one and no token the server issues ever carries the admin claim;
\* no handler runs for an admin identity, and every create-notification and
\* grant-admin that reaches its handler is refused with 403.
C21_NoAdminFromNone ==
    /\ \A u \in DOMAIN users : ~users[u].isAdmin
    /\ \A t \in issued : ~t.isAdmin
    /\ ~last.user.isAdmin
    /\ last.op \in AdminOps => (last.status = 403 /\ ~last.mutated)

C21_Witness ==
    /\ last.op = "PUT /grant-admin/:id"
    /\ last.status = 403
    /\ last.cookie \in issued
    /\ \E u \in DOMAIN users :
          /\ users[u].email = EmailAlice
          /\ last.cookie.userId = u
    /\ \E u \in DOMAIN users : users[u].isDeleted

\* C22: the soft-delete handler runs only for a verified token the server
\* issued, and for such a caller its outcome is decided by the target id
\* alone: 200 with the target's isDeleted set when a user has the id, 404
\* otherwise, whether or not the caller has the admin claim and whether or
\* not the caller is the target.
C22_SoftDeleteAuthOnly ==
    last.op = "DELETE /users/:id" =>
        /\ last.verify = "ok"
        /\ last.cookie \in issued
        /\ last.status = IF last.body.id \in DOMAIN users THEN 200 ELSE 404
        /\ last.status = 200 =>
              /\ users[last.body.id].isDeleted
              /\ last.result.user.isDeleted
              /\ last.result.user.email = users[last.body.id].email

C22_Witness ==
    /\ last.op = "DELETE /users/:id"
    /\ last.status = 200
    /\ ~last.user.isAdmin
    /\ last.user.userId # last.body.id
    /\ users[last.body.id].isAdmin
    /\ users[last.body.id].isDeleted
    /\ users[last.user.userId].isDeleted

\* C23: in every step, a notification that is read and still exists is
\* still read, a deleted notification's id is not given to a new one, and
\* every user is still in the collection, still an admin if it was one and
\* still deleted if it was.
C23_FlagsOnlyRise ==
    [][/\ \A n \in DOMAIN notifs \cap DOMAIN notifs' :
             notifs[n].isRead => notifs'[n].isRead
       /\ \A n \in DOMAIN notifs' \ DOMAIN notifs :
             n >= nextNotifId /\ ~notifs'[n].isRead
       /\ \A u \in DOMAIN users :
             /\ u \in DOMAIN users'
             /\ users[u].isAdmin => users'[u].isAdmin
             /\ users[u].isDeleted => users'[u].isDeleted]_vars

C23_Witness ==
    /\ last.op = "PUT /my-notifications/read-all"
    /\ last.status = 200
    /\ ~last.mutated
    /\ \E n \in DOMAIN notifs :
          last.user.userId \in Recipients(n) /\ notifs[n].isRead

====
